---- MODULE Spec2Model ----
(***************************************************************************)
(* Form state, validation and submission lifecycle of the screen templates *)
(* FormScreen.tsx (sign-up form) and LoginScreen.tsx (login).              *)
(*                                                                         *)
(* A JavaScript string is a sequence of one-character strings, a Date is a *)
(* record [year, month, day], an object with optional keys is a function   *)
(* whose DOMAIN is the set of its own keys.  One screen is mounted per     *)
(* behaviour (screen); the hooks of the other keep their initial values.   *)
(***************************************************************************)
EXTENDS Integers, Sequences, FiniteSets, TLC

(***************************************************************************)
(* Bounds of the model.                                                    *)
(***************************************************************************)
\* year of the clock's first reading (new Date())
CurrentYear == 2026
\* field updates per behaviour
MaxEdits == 2
\* presses of the submit / login button per behaviour
MaxPresses == 2
\* pulls of the dashboard's refresh control per behaviour
MaxRefreshes == 2
\* keystrokes in the phone input per behaviour
MaxKeys == 3

(***************************************************************************)
(* JavaScript strings.                                                     *)
(***************************************************************************)
\* the characters \s matches and trim() strips, among those the model uses
WhiteSpace == {" ", "\t", "\n"}

Digits == {"0", "1", "2", "3", "4", "5", "6", "7", "8", "9"}

\* n copies of the character c
Repeat(c, n) == [i \in 1..n |-> c]

RECURSIVE trimStart(_)
trimStart(s) ==
    IF s = <<>> THEN <<>>
    ELSE IF Head(s) \in WhiteSpace THEN trimStart(Tail(s))
    ELSE s

RECURSIVE trimEnd(_)
trimEnd(s) ==
    IF s = <<>> THEN <<>>
    ELSE IF s[Len(s)] \in WhiteSpace THEN trimEnd(SubSeq(s, 1, Len(s) - 1))
    ELSE s

\* String.prototype.trim
trim(s) == trimEnd(trimStart(s))

\* String.prototype.toLowerCase on the letters the model uses
LowerOf(c) == IF c = "A" THEN "a" ELSE IF c = "B" THEN "b" ELSE c

toLowerCase(s) == [i \in 1..Len(s) |-> LowerOf(s[i])]

\* phone.replace(/\D/g, ''): the digits of s, in order
RECURSIVE onlyDigits(_)
onlyDigits(s) ==
    IF s = <<>> THEN <<>>
    ELSE IF Head(s) \in Digits THEN <<Head(s)>> \o onlyDigits(Tail(s))
    ELSE onlyDigits(Tail(s))

\* a JavaScript value used as a condition: '' and undefined are falsy
Undefined == "undefined"

Truthy(v) == v # Undefined /\ v # ""

(***************************************************************************)
(* The validators.                                                         *)
(***************************************************************************)
\* validateEmail with a pattern that asks for no dot: /^[^\s@]+@[^\s@]+$/
validateEmailNoDot(email) ==
    \E i \in 1..Len(email) :
        /\ email[i] = "@"
        /\ 1 < i
        /\ i < Len(email)
        /\ \A k \in 1..Len(email) :
              k # i => email[k] \notin (WhiteSpace \cup {"@"})

\* /^[^\s@]+@[^\s@]+\.[^\s@]+$/.test(email)
validateEmail(email) ==
    \E i \in 1..Len(email) : \E j \in 1..Len(email) :
        /\ email[i] = "@"
        /\ email[j] = "."
        /\ 1 < i
        /\ i + 1 < j
        /\ j < Len(email)
        /\ \A k \in 1..Len(email) :
              k # i => email[k] \notin (WhiteSpace \cup {"@"})

\* phoneRegexTest with \d{4} for the middle group
phoneRegexTestFourOnly(t) ==
    \E a \in 0..1 : \E b \in 0..1 : \E c \in 0..1 : \E d \in 0..1 :
        /\ Len(t) = a + 2 + b + c + 4 + d + 4
        /\ a = 1 => t[1] = "("
        /\ \A k \in (a + 1)..(a + 2) : t[k] \in Digits
        /\ b = 1 => t[a + 3] = ")"
        /\ c = 1 => t[a + 2 + b + 1] \in (WhiteSpace \cup {"-"})
        /\ \A k \in (a + 2 + b + c + 1)..(a + 2 + b + c + 4) : t[k] \in Digits
        /\ d = 1 => t[a + 2 + b + c + 4 + 1] \in (WhiteSpace \cup {"-"})
        /\ \A k \in (a + 2 + b + c + 4 + d + 1)..(a + 2 + b + c + 4 + d + 4) :
              t[k] \in Digits

\* /^\(?\d{2}\)?[\s-]?\d{4,5}[\s-]?\d{4}$/.test(t)
phoneRegexTest(t) ==
    \E a \in 0..1 : \E b \in 0..1 : \E c \in 0..1 : \E n \in 4..5 : \E d \in 0..1 :
        /\ Len(t) = a + 2 + b + c + n + d + 4
        /\ a = 1 => t[1] = "("
        /\ \A k \in (a + 1)..(a + 2) : t[k] \in Digits
        /\ b = 1 => t[a + 3] = ")"
        /\ c = 1 => t[a + 2 + b + 1] \in (WhiteSpace \cup {"-"})
        /\ \A k \in (a + 2 + b + c + 1)..(a + 2 + b + c + n) : t[k] \in Digits
        /\ d = 1 => t[a + 2 + b + c + n + 1] \in (WhiteSpace \cup {"-"})
        /\ \A k \in (a + 2 + b + c + n + d + 1)..(a + 2 + b + c + n + d + 4) :
              t[k] \in Digits

validatePhone(phone) == phoneRegexTest(onlyDigits(phone))

\* formatPhone matching /^(\d{2})(\d{4})(\d{4})$/
formatPhoneFourOnly(phone) ==
    LET cleaned == onlyDigits(phone)
        n == Len(cleaned)
    IN  IF n = 10
        THEN <<"(">> \o SubSeq(cleaned, 1, 2) \o <<")", " ">>
             \o SubSeq(cleaned, 3, n - 4) \o <<"-">> \o SubSeq(cleaned, n - 3, n)
        ELSE phone

\* cleaned.match(/^(\d{2})(\d{4,5})(\d{4})$/) and the template string built from it
formatPhone(phone) ==
    LET cleaned == onlyDigits(phone)
        n == Len(cleaned)
    IN  IF n \in {10, 11}
        THEN <<"(">> \o SubSeq(cleaned, 1, 2) \o <<")", " ">>
             \o SubSeq(cleaned, 3, n - 4) \o <<"-">> \o SubSeq(cleaned, n - 3, n)
        ELSE phone

(***************************************************************************)
(* FormScreen: validateForm.                                               *)
(***************************************************************************)
\* Date.prototype.getUTCFullYear, read behind UTC late in the day: the year of
\* the day after
getUTCFullYear(date) ==
    IF date.month = 12 /\ date.day = 31 THEN date.year + 1 ELSE date.year

\* Date.prototype.getFullYear
getFullYear(date) == date.year

\* the keys of FormData and of FormErrors
FormDataKeys ==
    {"firstName", "lastName", "email", "phone", "birthDate", "gender",
     "country", "bio", "notifications", "newsletter"}

FormErrorsKeys ==
    {"firstName", "lastName", "email", "phone", "birthDate", "country", "bio"}

\* const newErrors: FormErrors = {}; let isValid = true
NoErrors == [newErrors |-> [k \in {} |-> ""], isValid |-> TRUE]

\* Flag without its second assignment
FlagKeepsValid(v, key, message) ==
    [newErrors |-> (key :> message) @@ v.newErrors, isValid |-> v.isValid]

\* newErrors[key] = message; isValid = false
Flag(v, key, message) ==
    [newErrors |-> (key :> message) @@ v.newErrors, isValid |-> FALSE]

BioMaxLength == 500
NameMinLength == 2
MinAge == 13
MaxAge == 120

\* checkFirstName measuring the trimmed name
checkFirstNameTrimmedLength(v, fd) ==
    IF trim(fd.firstName) = <<>> THEN Flag(v, "firstName", "Nome e obrigatorio")
    ELSE IF Len(trim(fd.firstName)) < NameMinLength
         THEN Flag(v, "firstName", "Nome deve ter pelo menos 2 caracteres")
         ELSE v

checkFirstName(v, fd) ==
    IF trim(fd.firstName) = <<>> THEN Flag(v, "firstName", "Nome e obrigatorio")
    ELSE IF Len(fd.firstName) < NameMinLength
         THEN Flag(v, "firstName", "Nome deve ter pelo menos 2 caracteres")
         ELSE v

checkLastName(v, fd) ==
    IF trim(fd.lastName) = <<>> THEN Flag(v, "lastName", "Sobrenome e obrigatorio")
    ELSE IF Len(fd.lastName) < NameMinLength
         THEN Flag(v, "lastName", "Sobrenome deve ter pelo menos 2 caracteres")
         ELSE v

checkEmail(v, fd) ==
    IF trim(fd.email) = <<>> THEN Flag(v, "email", "Email e obrigatorio")
    ELSE IF ~validateEmail(fd.email) THEN Flag(v, "email", "Email invalido")
         ELSE v

checkPhone(v, fd) ==
    IF trim(fd.phone) = <<>> THEN Flag(v, "phone", "Telefone e obrigatorio")
    ELSE IF ~validatePhone(fd.phone) THEN Flag(v, "phone", "Telefone invalido")
         ELSE v

\* checkBirthDate with the age counted in completed years
checkBirthDatePrecise(v, fd, today) ==
    LET reached == \/ today.month > fd.birthDate.month
                   \/ /\ today.month = fd.birthDate.month
                      /\ today.day >= fd.birthDate.day
        age == getFullYear(today) - getFullYear(fd.birthDate)
                   - (IF reached THEN 0 ELSE 1)
    IN  IF age < MinAge THEN Flag(v, "birthDate", "Idade minima e 13 anos")
        ELSE IF age > MaxAge
             THEN Flag(v, "birthDate", "Data de nascimento invalida")
             ELSE v

\* checkBirthDate comparing with <= and >= instead of < and >
checkBirthDateInclusive(v, fd, today) ==
    LET age == getFullYear(today) - getFullYear(fd.birthDate)
    IN  IF age <= MinAge THEN Flag(v, "birthDate", "Idade minima e 13 anos")
        ELSE IF age >= MaxAge
             THEN Flag(v, "birthDate", "Data de nascimento invalida")
             ELSE v

checkBirthDate(v, fd, today) ==
    LET age == getFullYear(today) - getFullYear(fd.birthDate)
    IN  IF age < MinAge THEN Flag(v, "birthDate", "Idade minima e 13 anos")
        ELSE IF age > MaxAge
             THEN Flag(v, "birthDate", "Data de nascimento invalida")
             ELSE v

\* checkCountry skipped once an earlier field has failed
checkCountryShortCircuit(v, fd) ==
    IF ~v.isValid THEN v
    ELSE IF fd.country = "" THEN Flag(v, "country", "Pais e obrigatorio") ELSE v

checkCountry(v, fd) ==
    IF fd.country = "" THEN Flag(v, "country", "Pais e obrigatorio") ELSE v

\* checkBio comparing with >= instead of >
checkBioInclusive(v, fd) ==
    IF Len(fd.bio) >= BioMaxLength
    THEN Flag(v, "bio", "Bio deve ter no maximo 500 caracteres")
    ELSE v

checkBio(v, fd) ==
    IF Len(fd.bio) > BioMaxLength
    THEN Flag(v, "bio", "Bio deve ter no maximo 500 caracteres")
    ELSE v

\* validateForm of FormScreen on the rendered formData, with today = new Date():
\* the error map handed to setErrors and the boolean returned
validateForm(fd, today) ==
    checkBio(checkCountry(checkBirthDate(checkPhone(checkEmail(checkLastName(
        checkFirstName(NoErrors, fd), fd), fd), fd), fd, today), fd), fd)

(***************************************************************************)
(* LoginScreen: validateForm.                                              *)
(***************************************************************************)
PasswordMinLength == 6

\* const newErrors = { email: '', password: '' }; let isValid = true
NoLoginErrors == [newErrors |-> [email |-> "", password |-> ""], isValid |-> TRUE]

\* LoginFlag without its second assignment
LoginFlagKeepsValid(v, key, message) ==
    [newErrors |-> [v.newErrors EXCEPT ![key] = message], isValid |-> v.isValid]

\* newErrors.key = message; isValid = false
LoginFlag(v, key, message) ==
    [newErrors |-> [v.newErrors EXCEPT ![key] = message], isValid |-> FALSE]

checkLoginEmail(v, e) ==
    IF trim(e) = <<>> THEN LoginFlag(v, "email", "Email e obrigatorio")
    ELSE IF ~validateEmail(e) THEN LoginFlag(v, "email", "Email invalido")
         ELSE v

\* checkLoginPassword comparing with <= instead of <
checkLoginPasswordAtMost(v, p) ==
    IF trim(p) = <<>> THEN LoginFlag(v, "password", "Senha e obrigatoria")
    ELSE IF Len(p) <= PasswordMinLength
         THEN LoginFlag(v, "password", "Senha deve ter pelo menos 6 caracteres")
         ELSE v

checkLoginPassword(v, p) ==
    IF trim(p) = <<>> THEN LoginFlag(v, "password", "Senha e obrigatoria")
    ELSE IF Len(p) < PasswordMinLength
         THEN LoginFlag(v, "password", "Senha deve ter pelo menos 6 caracteres")
         ELSE v

\* validateForm of LoginScreen on the rendered email and password
loginValidateForm(e, p) ==
    checkLoginPassword(checkLoginEmail(NoLoginErrors, e), p)

(***************************************************************************)
(* State: the hooks of the mounted screen, its props, the clock, and what  *)
(* the screen has shown and called.                                        *)
(***************************************************************************)
VARIABLES
    screen,          \* the mounted component: "form" or "login"
    now,             \* the clock: what new Date() returns
    formData,        \* FormScreen: useState<FormData>
    errors,          \* FormScreen: useState<FormErrors>
    showDatePicker,  \* FormScreen: useState(false)
    isLoading,       \* FormScreen: useState(false)
    hasOnSubmit,     \* FormScreen: the onSubmit prop is given
    pending,         \* FormScreen: handleSubmit calls suspended at the await,
                     \*   each with the formData of the render it closed over
    submitted,       \* FormScreen: the onSubmit calls made, each with its
                     \*   argument and what the call did
    email,           \* LoginScreen: useState('')
    password,        \* LoginScreen: useState('')
    showPassword,    \* LoginScreen: useState(false)
    loginIsLoading,  \* LoginScreen: useState(false)
    loginErrors,     \* LoginScreen: useState({ email: '', password: '' })
    hasOnLogin,      \* LoginScreen: the onLogin prop is given
    loginPending,    \* LoginScreen: handleLogin calls suspended at the await
    loggedIn,        \* LoginScreen: the onLogin calls made
    alert,           \* the last Alert.alert shown, <<title, message>>
    lastPass,        \* history: the values and the date the last validateForm
                     \*   call read, what it produced, and the same of the call
                     \*   before it if that read the same values on another
                     \*   day; NoPass before the first call
    editedSince,     \* FormScreen, history: the fields updateFormData was called
                     \*   for since the last validateForm call
    outcome,         \* how the last resumed submission ended
    lastEdit,        \* FormScreen, history: the arguments of the last
                     \*   updateFormData call
    nValid,          \* history: the validateForm calls that returned true
    nDone,           \* history: the suspended handlers that have run to their end
    typed,           \* FormScreen, history: the text the input of the last
                     \*   updateFormData call got from the user, empty when
                     \*   the input is not a text input
    birthDateFrom,   \* FormScreen, history: where formData.birthDate comes
                     \*   from: "construction" or "picker"
    dashboardData,   \* DashboardScreen: useState<DashboardData>
    activities,      \* DashboardScreen: useState<Activity[]>
    refreshing,      \* DashboardScreen: useState(false)
    refreshPending,  \* DashboardScreen: onRefresh calls suspended at the await,
                     \*   each with the dashboardData of the render it closed
                     \*   over
    nEdits, nPresses, nRefreshes

formVars ==
    <<formData, errors, showDatePicker, isLoading, hasOnSubmit, pending, submitted>>

loginVars ==
    <<email, password, showPassword, loginIsLoading, loginErrors, hasOnLogin,
      loginPending, loggedIn>>

dashVars == <<dashboardData, activities, refreshing, refreshPending, nRefreshes>>

vars ==
    <<screen, now, formVars, loginVars, dashVars, alert, outcome, lastPass,
      editedSince, lastEdit, typed, birthDateFrom, nValid, nDone, nEdits,
      nPresses>>

history == <<lastPass, editedSince, lastEdit, nValid, nDone>>

(***************************************************************************)
(* Sample values.                                                          *)
(***************************************************************************)
Date(y, m, d) == [year |-> y, month |-> m, day |-> d]

\* the days of the clock: the screen is mounted two days before the end of
\* CurrentYear
FirstDay == Date(CurrentYear, 12, 30)

\* or on the last day of the year
NewYearsEve == Date(CurrentYear, 12, 31)

\* and the first day of the next year
NewYearsDay == Date(CurrentYear + 1, 1, 1)

NoAlert == <<"", "">>

NoEdit == [field |-> "", value |-> ""]

NoPass ==
    [formData |-> <<>>, today |-> <<>>, made |-> FALSE, newErrors |-> <<>>,
     isValid |-> FALSE, before |-> <<>>]

\* a validateForm call: what it read, what it produced, and the call before it
\* when that call read the same values on another day
Pass(values, today, v, last) ==
    [formData |-> values, today |-> today, made |-> TRUE,
     newErrors |-> v.newErrors, isValid |-> v.isValid,
     before |-> IF last.made /\ last.formData = values /\ last.today # today
                THEN [last EXCEPT !.before = <<>>]
                ELSE NoPass]

ValidPhone == <<"1", "1", "9", "9", "9", "9", "8", "8", "8", "8">>

\* an initialData prop that fills every field validly
ValidInitialData ==
    [firstName |-> <<"A", "n", "a">>,
     lastName |-> <<"L", "i">>,
     email |-> <<"a", "@", "b", ".", "c">>,
     phone |-> formatPhone(ValidPhone),
     birthDate |-> Date(CurrentYear - 30, 6, 15),
     gender |-> "female",
     country |-> "BR",
     bio |-> <<"o", "i">>,
     notifications |-> TRUE,
     newsletter |-> FALSE]

\* an initialData prop that fills every field validly but the birth date
WithoutBirthDate ==
    [k \in DOMAIN ValidInitialData \ {"birthDate"} |-> ValidInitialData[k]]

\* the initialData props of the behaviours: none, complete
InitialDataSamples == {[k \in {} |-> ""], ValidInitialData}

\* the ten digits of ValidPhone among other characters
OddlySeparatedPhone ==
    <<"+", "1", "1", "x">> \o SubSeq(ValidPhone, 3, 6) \o <<".", ".">>
        \o SubSeq(ValidPhone, 7, 10) \o <<" ">>

NotAnEmail == <<"n", "o", "t", "-", "a", "n", "-", "e", "m", "a", "i", "l">>

\* complete initialData props covering both sides of every validation rule
InitialDataAll ==
    [firstName : {<<>>, <<" ">>, <<"a">>, <<"a", " ">>, <<"A", "b">>},
     lastName : {<<>>, <<" ", " ">>, <<"b">>, <<"L", "i">>},
     email : {<<>>, <<" ">>, NotAnEmail, <<"a", "@", "b">>, <<"a", "@", ".", "c">>,
              <<"a", "@", "b", ".", "c">>},
     phone : {<<>>, <<" ">>, SubSeq(ValidPhone, 1, 9), OddlySeparatedPhone,
              formatPhone(ValidPhone \o <<"7">>), ValidPhone \o <<"7", "7">>},
     birthDate : {Date(CurrentYear - (MinAge - 1), 6, 15),
                  Date(CurrentYear - MinAge, 12, 31),
                  Date(CurrentYear - MaxAge, 6, 15),
                  Date(CurrentYear - (MaxAge + 1), 6, 15)},
     gender : {""},
     country : {"", "BR"},
     bio : {<<>>, Repeat("b", BioMaxLength), Repeat("b", BioMaxLength + 1)},
     notifications : {FALSE},
     newsletter : {TRUE}]

\* what the user types into each text input
TypedText(field) ==
    CASE field = "firstName" -> {<<"a">>}
      [] field = "lastName" -> {<<"L", "i">>}
      [] field = "email" -> {<<"A", "@", "b", ".", "c">>}
      [] field = "phone" -> {ValidPhone}
      [] field = "bio" -> {<<"o", "l", "a">>}

TextFields == {"firstName", "lastName", "email", "phone", "bio"}

\* the values of the Picker items the model selects
PickedValue(field) ==
    CASE field = "gender" -> {"male"}
      [] field = "country" -> {"", "BR"}

PickerFields == {"gender", "country"}

SwitchFields == {"notifications", "newsletter"}

\* minimumDate={new Date(1900, 0, 1)}
MinimumYear == 1900

\* the dates the model selects in the DateTimePicker
PickerDates ==
    {Date(CurrentYear - (MinAge - 1), 3, 1), Date(MinimumYear, 1, 1)}

\* what the user types into the login inputs
TypedEmail == {<<>>, <<"a", "@">>, NotAnEmail, <<"a", "@", "b", ".", "c">>}

TypedPassword ==
    {<<>>, <<"a", "b", "c">>, <<"a", "b", "c", "d", "e">>,
     Repeat(" ", PasswordMinLength - 1), Repeat(" ", PasswordMinLength),
     <<"a", "b", "c", "d", "e", "f">>}

\* the initial dashboardData, growthRate (12.5) in tenths
InitialDashboardData ==
    [totalUsers |-> 1250, totalSales |-> 89, totalRevenue |-> 45680,
     growthRate |-> 125]

\* the initial activities, by id and type
InitialActivities ==
    <<[id |-> "1", type |-> "sale"], [id |-> "2", type |-> "user"],
      [id |-> "3", type |-> "order"]>>

\* the values of Math.random() the model draws, in thousandths
RandomDraws == {0, 500, 999}

(***************************************************************************)
(* Construction.                                                           *)
(***************************************************************************)
\* initialData?.key || fallback; a falsy value of a key is its fallback
OrElse(initialData, key, fallback) ==
    IF key \in DOMAIN initialData THEN initialData[key] ELSE fallback

\* the formData hook with a birth date of eighteen years ago as fallback
InitialFormDataAdult(initialData, today) ==
    [firstName |-> OrElse(initialData, "firstName", <<>>),
     lastName |-> OrElse(initialData, "lastName", <<>>),
     email |-> OrElse(initialData, "email", <<>>),
     phone |-> OrElse(initialData, "phone", <<>>),
     birthDate |-> OrElse(initialData, "birthDate",
                          [today EXCEPT !.year = today.year - 18]),
     gender |-> OrElse(initialData, "gender", ""),
     country |-> OrElse(initialData, "country", ""),
     bio |-> OrElse(initialData, "bio", <<>>),
     notifications |-> OrElse(initialData, "notifications", FALSE),
     newsletter |-> OrElse(initialData, "newsletter", FALSE)]

\* the initial value of the formData hook
InitialFormData(initialData, today) ==
    [firstName |-> OrElse(initialData, "firstName", <<>>),
     lastName |-> OrElse(initialData, "lastName", <<>>),
     email |-> OrElse(initialData, "email", <<>>),
     phone |-> OrElse(initialData, "phone", <<>>),
     birthDate |-> OrElse(initialData, "birthDate", today),
     gender |-> OrElse(initialData, "gender", ""),
     country |-> OrElse(initialData, "country", ""),
     bio |-> OrElse(initialData, "bio", <<>>),
     notifications |-> OrElse(initialData, "notifications", FALSE),
     newsletter |-> OrElse(initialData, "newsletter", FALSE)]

InitHooks(initialData, today) ==
    /\ now = today
    /\ formData = InitialFormData(initialData, now)
    /\ errors = [k \in {} |-> ""]
    /\ showDatePicker = FALSE
    /\ isLoading = FALSE
    /\ pending = <<>>
    /\ submitted = <<>>
    /\ email = <<>>
    /\ password = <<>>
    /\ showPassword = FALSE
    /\ loginIsLoading = FALSE
    /\ loginErrors = [email |-> "", password |-> ""]
    /\ loginPending = <<>>
    /\ loggedIn = <<>>
    /\ alert = NoAlert
    /\ outcome = "none"
    /\ lastPass = NoPass
    /\ editedSince = {}
    /\ lastEdit = NoEdit
    /\ nValid = 0
    /\ nDone = 0
    /\ nEdits = 0
    /\ nPresses = 0
    /\ typed = <<>>
    /\ birthDateFrom = "construction"
    /\ dashboardData = InitialDashboardData
    /\ activities = InitialActivities
    /\ refreshing = FALSE
    /\ refreshPending = <<>>
    /\ nRefreshes = 0

\* one screen is mounted on the day today, with or without its callback prop;
\* FormScreen is given one of the initialData props
InitWith(initialDatas, today) ==
    /\ screen \in {"form", "login"}
    /\ hasOnSubmit \in (IF screen = "form" THEN BOOLEAN ELSE {FALSE})
    /\ hasOnLogin \in (IF screen = "login" THEN BOOLEAN ELSE {FALSE})
    /\ \E initialData \in (IF screen = "form" THEN initialDatas
                           ELSE {[k \in {} |-> ""]}) :
          InitHooks(initialData, today)

Init == InitWith(InitialDataSamples, NewYearsEve)

(***************************************************************************)
(* FormScreen: the handlers.                                               *)
(***************************************************************************)
\* errors[key]: reading a key the object does not have yields undefined
ErrorOf(errs, key) == IF key \in DOMAIN errs THEN errs[key] ELSE Undefined

\* updateFormData building the new formData without spreading the old one
updateFormDataResetsRest(field, value) ==
    /\ formData' = [InitialFormData([k \in {} |-> ""], now) EXCEPT ![field] = value]
    /\ errors' = IF Truthy(ErrorOf(errors, field))
                 THEN (field :> Undefined) @@ errors
                 ELSE errors

\* updateFormData clearing the whole error map
updateFormDataClearsAll(field, value) ==
    /\ formData' = [formData EXCEPT ![field] = value]
    /\ errors' = IF Truthy(ErrorOf(errors, field))
                 THEN [k \in {} |-> ""]
                 ELSE errors

\* updateFormData validating the new form values
updateFormDataRevalidates(field, value) ==
    /\ formData' = [formData EXCEPT ![field] = value]
    /\ errors' = validateForm([formData EXCEPT ![field] = value], now).newErrors

\* updateFormData building the new error map without spreading the old one
updateFormDataDropsPrev(field, value) ==
    /\ formData' = [formData EXCEPT ![field] = value]
    /\ errors' = IF Truthy(ErrorOf(errors, field))
                 THEN (field :> Undefined)
                 ELSE errors

\* updateFormData(field, value), run by the render that shows formData, errors
updateFormData(field, value) ==
    /\ formData' = [formData EXCEPT ![field] = value]
    /\ errors' = IF Truthy(ErrorOf(errors, field))
                 THEN (field :> Undefined) @@ errors
                 ELSE errors

\* what each text input passes to updateFormData for the typed text
WiredText(field, text) ==
    CASE field = "email" -> toLowerCase(text)
      [] field = "phone" -> formatPhone(text)
      [] OTHER -> text

\* onChangeText of the five InputFields
OnChangeText ==
    /\ screen = "form"
    /\ nEdits < MaxEdits
    /\ \E field \in TextFields : \E text \in TypedText(field) :
          /\ updateFormData(field, WiredText(field, text))
          /\ editedSince' = editedSince \cup {field}
          /\ lastEdit' = [field |-> field, value |-> WiredText(field, text)]
          /\ typed' = text
    /\ nEdits' = nEdits + 1
    /\ UNCHANGED <<lastPass, nValid, nDone, screen, now, showDatePicker,
                   isLoading, hasOnSubmit, pending, submitted, loginVars,
                   alert, outcome, nPresses>>
    /\ UNCHANGED <<birthDateFrom, dashVars>>

\* the texts a keystroke makes of the text an input shows: a character more
\* at the end, or one less
Keystrokes(value) ==
    {Append(value, c) : c \in {"1", "2", "-"}}
        \cup (IF value = <<>> THEN {} ELSE {SubSeq(value, 1, Len(value) - 1)})

\* onChangeText of the phone InputField, keystroke by keystroke
OnChangePhoneText ==
    /\ screen = "form"
    /\ nEdits < MaxKeys
    /\ \E text \in Keystrokes(formData.phone) :
          /\ updateFormData("phone", WiredText("phone", text))
          /\ lastEdit' = [field |-> "phone", value |-> WiredText("phone", text)]
          /\ typed' = text
    /\ editedSince' = editedSince \cup {"phone"}
    /\ nEdits' = nEdits + 1
    /\ UNCHANGED <<lastPass, nValid, nDone, screen, now, showDatePicker,
                   isLoading, hasOnSubmit, pending, submitted, loginVars,
                   alert, outcome, nPresses, birthDateFrom, dashVars>>

\* onValueChange of the gender and country Pickers
OnPickerValueChange ==
    /\ screen = "form"
    /\ nEdits < MaxEdits
    /\ \E field \in PickerFields : \E value \in PickedValue(field) :
          /\ updateFormData(field, value)
          /\ editedSince' = editedSince \cup {field}
          /\ lastEdit' = [field |-> field, value |-> value]
    /\ nEdits' = nEdits + 1
    /\ UNCHANGED <<lastPass, nValid, nDone, screen, now, showDatePicker,
                   isLoading, hasOnSubmit, pending, submitted, loginVars,
                   alert, outcome, nPresses>>
    /\ typed' = <<>>
    /\ UNCHANGED <<birthDateFrom, dashVars>>

\* onValueChange of the notifications and newsletter Switches
OnSwitchValueChange ==
    /\ screen = "form"
    /\ nEdits < MaxEdits
    /\ \E field \in SwitchFields :
          /\ updateFormData(field, ~formData[field])
          /\ editedSince' = editedSince \cup {field}
          /\ lastEdit' = [field |-> field, value |-> ~formData[field]]
    /\ nEdits' = nEdits + 1
    /\ UNCHANGED <<lastPass, nValid, nDone, screen, now, showDatePicker,
                   isLoading, hasOnSubmit, pending, submitted, loginVars,
                   alert, outcome, nPresses>>
    /\ typed' = <<>>
    /\ UNCHANGED <<birthDateFrom, dashVars>>

\* onPress of the birth date row
OpenDatePicker ==
    /\ screen = "form"
    /\ ~showDatePicker
    /\ showDatePicker' = TRUE
    /\ UNCHANGED <<history, screen, now, formData, errors, isLoading,
                   hasOnSubmit, pending, submitted, loginVars, alert, outcome,
                   nEdits, nPresses>>
    /\ UNCHANGED <<typed, birthDateFrom, dashVars>>

\* the dates the picker offers: minimumDate .. maximumDate={new Date()}
Selectable(date) == MinimumYear <= date.year /\ date.year <= now.year

\* onChange of the DateTimePicker with a selected date
DatePickerSelect ==
    /\ screen = "form"
    /\ showDatePicker
    /\ nEdits < MaxEdits
    /\ showDatePicker' = FALSE
    /\ \E selectedDate \in PickerDates :
          /\ Selectable(selectedDate)
          /\ updateFormData("birthDate", selectedDate)
          /\ editedSince' = editedSince \cup {"birthDate"}
          /\ lastEdit' = [field |-> "birthDate", value |-> selectedDate]
    /\ nEdits' = nEdits + 1
    /\ UNCHANGED <<lastPass, nValid, nDone, screen, now, isLoading,
                   hasOnSubmit, pending, submitted, loginVars, alert, outcome,
                   nPresses>>
    /\ birthDateFrom' = "picker"
    /\ typed' = <<>>
    /\ UNCHANGED dashVars

\* onChange of the DateTimePicker when it is dismissed (selectedDate undefined)
DatePickerDismiss ==
    /\ screen = "form"
    /\ showDatePicker
    /\ showDatePicker' = FALSE
    /\ UNCHANGED <<history, screen, now, formData, errors, isLoading,
                   hasOnSubmit, pending, submitted, loginVars, alert, outcome,
                   nEdits, nPresses>>
    /\ UNCHANGED <<typed, birthDateFrom, dashVars>>

\* the submit button without its disabled prop
SubmitNeverDisabled == FALSE

\* disabled={isLoading} of the submit button
SubmitDisabled == isLoading

\* handleSubmit up to its await, run by a press of the submit button
HandleSubmit ==
    /\ screen = "form"
    /\ ~SubmitDisabled
    /\ nPresses < MaxPresses
    /\ nPresses' = nPresses + 1
    /\ editedSince' = {}
    /\ LET v == validateForm(formData, now)
       IN  /\ lastPass' = Pass(formData, now, v, lastPass)
           /\ errors' = v.newErrors
           /\ IF ~v.isValid
              THEN /\ alert' = <<"Erro",
                                  "Por favor, corrija os erros no formulario.">>
                   /\ UNCHANGED <<isLoading, pending, nValid>>
              ELSE /\ isLoading' = TRUE
                   /\ pending' = Append(pending, formData)
                   /\ nValid' = nValid + 1
                   /\ UNCHANGED alert
    /\ UNCHANGED <<screen, now, formData, showDatePicker, hasOnSubmit,
                   submitted, loginVars, outcome, lastEdit, nDone, nEdits>>
    /\ UNCHANGED <<typed, birthDateFrom, dashVars>>

\* what the onSubmit / onLogin prop does when called
Behaviours == {"returns", "throws"}

\* the callback called a second time
CalledTwice(calls, given, args, behaviour) ==
    IF given
    THEN calls \o <<[args |-> args, did |-> behaviour],
                    [args |-> args, did |-> behaviour]>>
    ELSE calls

\* if (onSubmit) { onSubmit(formData) }: the calls made, after this one
Called(calls, given, args, behaviour) ==
    IF given THEN Append(calls, [args |-> args, did |-> behaviour]) ELSE calls

\* the loading flag with the finally block missing
LoadingAfterKept(behaviour) == TRUE

\* setIsLoading(false) as the last statement of the try body
LoadingAfterTryBody(behaviour) == behaviour = "throws"

\* finally { setIsLoading(false) }: the loading flag after the try statement,
\* whether its body returned or threw
LoadingAfter(behaviour) == FALSE

\* onSubmit handed the formData of the latest render
SubmittedDataLatest == formData

\* the formData in onSubmit(formData): the constant of the render whose
\* handleSubmit was called, which the suspended call closed over
SubmittedData == Head(pending)

\* handleSubmit from the end of its await: the try body, catch and finally
HandleSubmitResume ==
    /\ screen = "form"
    /\ pending # <<>>
    /\ \E behaviour \in (IF hasOnSubmit THEN Behaviours ELSE {"returns"}) :
          /\ submitted' =
                Called(submitted, hasOnSubmit, SubmittedData, behaviour)
          /\ isLoading' = LoadingAfter(behaviour)
          /\ alert' = IF behaviour = "throws"
                      THEN <<"Erro", "Falha ao enviar formulario. Tente novamente.">>
                      ELSE IF hasOnSubmit THEN alert
                      ELSE <<"Sucesso", "Formulario enviado com sucesso!">>
          /\ outcome' = IF behaviour = "throws" THEN "failed" ELSE "succeeded"
    /\ nDone' = nDone + 1
    /\ pending' = Tail(pending)
    /\ UNCHANGED <<lastPass, editedSince, lastEdit, nValid, screen, now,
                   formData, errors, showDatePicker, hasOnSubmit, loginVars,
                   nEdits, nPresses>>
    /\ UNCHANGED <<typed, birthDateFrom, dashVars>>

(***************************************************************************)
(* LoginScreen: the handlers.                                              *)
(***************************************************************************)
\* onChangeText={setEmail}
SetEmail ==
    /\ screen = "login"
    /\ nEdits < MaxEdits
    /\ \E text \in TypedEmail : email' = text
    /\ nEdits' = nEdits + 1
    /\ UNCHANGED <<history, screen, now, formVars, password, showPassword,
                   loginIsLoading, loginErrors, hasOnLogin, loginPending,
                   loggedIn, alert, outcome, nPresses>>
    /\ UNCHANGED <<typed, birthDateFrom, dashVars>>

\* onChangeText={setPassword}
SetPassword ==
    /\ screen = "login"
    /\ nEdits < MaxEdits
    /\ \E text \in TypedPassword : password' = text
    /\ nEdits' = nEdits + 1
    /\ UNCHANGED <<history, screen, now, formVars, email, showPassword,
                   loginIsLoading, loginErrors, hasOnLogin, loginPending,
                   loggedIn, alert, outcome, nPresses>>
    /\ UNCHANGED <<typed, birthDateFrom, dashVars>>

\* onPress of the eye icon
ToggleShowPassword ==
    /\ screen = "login"
    /\ showPassword' = ~showPassword
    /\ UNCHANGED <<history, screen, now, formVars, email, password,
                   loginIsLoading, loginErrors, hasOnLogin, loginPending,
                   loggedIn, alert, outcome, nEdits, nPresses>>
    /\ UNCHANGED <<typed, birthDateFrom, dashVars>>

\* handleForgotPassword
HandleForgotPassword ==
    /\ screen = "login"
    /\ alert' = <<"Recuperar Senha",
                  "Um link de recuperacao sera enviado para seu email.">>
    /\ UNCHANGED <<history, screen, now, formVars, loginVars, outcome, nEdits,
                   nPresses>>
    /\ UNCHANGED <<typed, birthDateFrom, dashVars>>

\* the login button without its disabled prop
LoginNeverDisabled == FALSE

\* disabled={isLoading} of the login button
LoginDisabled == loginIsLoading

\* handleLogin up to its await, run by a press of the login button
HandleLogin ==
    /\ screen = "login"
    /\ ~LoginDisabled
    /\ nPresses < MaxPresses
    /\ nPresses' = nPresses + 1
    /\ LET v == loginValidateForm(email, password)
       IN  /\ lastPass' =
                 Pass([email |-> email, password |-> password], now, v, lastPass)
           /\ loginErrors' = v.newErrors
           /\ IF ~v.isValid
              THEN UNCHANGED <<loginIsLoading, loginPending, nValid>>
              ELSE /\ loginIsLoading' = TRUE
                   /\ loginPending' =
                         Append(loginPending,
                                [email |-> email, password |-> password])
                   /\ nValid' = nValid + 1
    /\ UNCHANGED <<editedSince, lastEdit, nDone, screen, now, formVars, email,
                   password, showPassword, hasOnLogin, loggedIn, alert,
                   outcome, nEdits>>
    /\ UNCHANGED <<typed, birthDateFrom, dashVars>>

\* handleLogin from the end of its await: the try body, catch and finally
HandleLoginResume ==
    /\ screen = "login"
    /\ loginPending # <<>>
    /\ \E behaviour \in (IF hasOnLogin THEN Behaviours ELSE {"returns"}) :
          /\ loggedIn' =
                Called(loggedIn, hasOnLogin, Head(loginPending), behaviour)
          /\ loginIsLoading' = LoadingAfter(behaviour)
          /\ alert' = IF behaviour = "throws"
                      THEN <<"Erro", "Falha no login. Tente novamente.">>
                      ELSE IF hasOnLogin THEN alert
                      ELSE <<"Sucesso", "Login realizado com sucesso!">>
          /\ outcome' = IF behaviour = "throws" THEN "failed" ELSE "succeeded"
    /\ nDone' = nDone + 1
    /\ loginPending' = Tail(loginPending)
    /\ UNCHANGED <<lastPass, editedSince, lastEdit, nValid, screen, now,
                   formVars, email, password, showPassword, loginErrors,
                   hasOnLogin, nEdits, nPresses>>
    /\ UNCHANGED <<typed, birthDateFrom, dashVars>>

(***************************************************************************)
(* DashboardScreen: the refresh.                                           *)
(***************************************************************************)
\* Math.floor(Math.random() * n) for a value of Math.random() in thousandths
floorRandomTimes(random, n) == (random * n) \div 1000

\* the new dashboardData built from the render's dashboardData, not from prev
RefreshedFromClosure(prev, closure, r1, r2, r3) ==
    [closure EXCEPT
        !.totalUsers = closure.totalUsers + floorRandomTimes(r1, 10),
        !.totalSales = closure.totalSales + floorRandomTimes(r2, 5),
        !.totalRevenue = closure.totalRevenue + floorRandomTimes(r3, 1000)]

\* the updater passed to setDashboardData, applied to the current state prev
Refreshed(prev, closure, r1, r2, r3) ==
    [prev EXCEPT
        !.totalUsers = prev.totalUsers + floorRandomTimes(r1, 10),
        !.totalSales = prev.totalSales + floorRandomTimes(r2, 5),
        !.totalRevenue = prev.totalRevenue + floorRandomTimes(r3, 1000)]

\* onRefresh up to its await, run by a pull of the RefreshControl
OnRefresh ==
    /\ screen = "dashboard"
    /\ nRefreshes < MaxRefreshes
    /\ nRefreshes' = nRefreshes + 1
    /\ refreshing' = TRUE
    /\ refreshPending' = Append(refreshPending, dashboardData)
    /\ UNCHANGED <<dashboardData, activities, history, typed, birthDateFrom,
                   screen, now, formVars, loginVars, alert, outcome, nEdits,
                   nPresses>>

\* onRefresh from the end of its await
OnRefreshResume ==
    /\ screen = "dashboard"
    /\ refreshPending # <<>>
    /\ \E r1 \in RandomDraws : \E r2 \in RandomDraws : \E r3 \in RandomDraws :
          dashboardData' =
              Refreshed(dashboardData, Head(refreshPending), r1, r2, r3)
    /\ refreshing' = FALSE
    /\ refreshPending' = Tail(refreshPending)
    /\ UNCHANGED <<activities, nRefreshes, history, typed, birthDateFrom,
                   screen, now, formVars, loginVars, alert, outcome, nEdits,
                   nPresses>>

(***************************************************************************)
(* The clock.                                                              *)
(***************************************************************************)
\* midnight: new Date() is in the next day, which after the last day of the
\* year is in the next year
Tick ==
    /\ now \in {FirstDay, NewYearsEve}
    /\ now' = IF now = FirstDay THEN NewYearsEve ELSE NewYearsDay
    /\ UNCHANGED <<history, screen, formVars, loginVars, alert, outcome,
                   nEdits, nPresses>>
    /\ UNCHANGED <<typed, birthDateFrom, dashVars>>

Next ==
    \/ OnChangeText
    \/ OnPickerValueChange
    \/ OnSwitchValueChange
    \/ OpenDatePicker
    \/ DatePickerSelect
    \/ DatePickerDismiss
    \/ HandleSubmit
    \/ HandleSubmitResume
    \/ SetEmail
    \/ SetPassword
    \/ ToggleShowPassword
    \/ HandleForgotPassword
    \/ HandleLogin
    \/ HandleLoginResume
    \/ Tick

Spec == Init /\ [][Next]_vars

\* the screens whose submit can pass validation within MaxEdits updates:
\* FormScreen constructed with complete data, LoginScreen
InitComplete == InitWith({ValidInitialData}, NewYearsEve)

\* the timer of a suspended handler fires and the handler runs to its end
FairSpec ==
    /\ InitComplete
    /\ [][Next]_vars
    /\ WF_vars(HandleSubmitResume)
    /\ WF_vars(HandleLoginResume)

\* DashboardScreen mounted
InitDashboard ==
    /\ screen = "dashboard"
    /\ hasOnSubmit = FALSE
    /\ hasOnLogin = FALSE
    /\ InitHooks([k \in {} |-> ""], NewYearsEve)

NextDashboard ==
    \/ OnRefresh
    \/ OnRefreshResume

\* the timer of a suspended onRefresh fires and it runs to its end
SpecDashboard ==
    InitDashboard /\ [][NextDashboard]_vars /\ WF_vars(OnRefreshResume)

\* initialData props that are complete, with a phone of no, nine and ten
\* digits, bare or as the phone input leaves it
PhoneInitialData ==
    {[ValidInitialData EXCEPT !.phone = phone] :
        phone \in {<<>>, SubSeq(ValidPhone, 1, 9), ValidPhone,
                   formatPhone(ValidPhone)}}

\* FormScreen with its phone input in use
InitPhone == InitWith(PhoneInitialData, NewYearsEve) /\ screen = "form"

NextPhone ==
    \/ OnChangePhoneText
    \/ HandleSubmit
    \/ HandleSubmitResume

SpecPhone == InitPhone /\ [][NextPhone]_vars

\* FormScreen constructed without an initial birth date
InitNoBirthDate == InitWith({[k \in {} |-> ""], WithoutBirthDate}, NewYearsEve)

SpecNoBirthDate == InitNoBirthDate /\ [][Next]_vars

(***************************************************************************)
(* Validation on its own: FormScreen is constructed with any of the        *)
(* complete initialData props and only submitted; LoginScreen as above.    *)
(***************************************************************************)
InitValidate == InitWith(InitialDataAll, FirstDay)

NextValidate ==
    \/ HandleSubmit
    \/ HandleSubmitResume
    \/ SetEmail
    \/ SetPassword
    \/ HandleLogin
    \/ HandleLoginResume
    \/ Tick

SpecValidate == InitValidate /\ [][NextValidate]_vars

(***************************************************************************)
(* The validation rules, stated field by field.                            *)
(***************************************************************************)
Blank(text) == \A i \in 1..Len(text) : text[i] \in WhiteSpace

Age(date, today) == today.year - date.year

\* the value of key in fd fails its rule on the day today
RuleFails(key, fd, today) ==
    CASE key = "firstName" -> Blank(fd.firstName) \/ Len(fd.firstName) < 2
      [] key = "lastName" -> Blank(fd.lastName) \/ Len(fd.lastName) < 2
      [] key = "email" -> Blank(fd.email) \/ ~validateEmail(fd.email)
      [] key = "phone" ->
            Blank(fd.phone) \/ Len(onlyDigits(fd.phone)) \notin {10, 11}
      [] key = "birthDate" ->
            Age(fd.birthDate, today) < 13 \/ Age(fd.birthDate, today) > 120
      [] key = "country" -> fd.country = ""
      [] key = "bio" -> Len(fd.bio) > 500
      [] OTHER -> FALSE

LoginKeys == {"email", "password"}

\* the login value of key fails its rule
LoginRuleFails(key, e, p) ==
    CASE key = "email" -> Blank(e) \/ ~validateEmail(e)
      [] key = "password" -> Blank(p) \/ Len(p) < 6

\* the step is a press of the submit / login button, which validates
ValidationPass == nPresses' = nPresses + 1

\* the values on screen fail validation
Invalid ==
    IF screen = "form" THEN \E k \in FormDataKeys : RuleFails(k, formData, now)
    ELSE \E k \in LoginKeys : LoginRuleFails(k, email, password)

(***************************************************************************)
(* Claims.                                                                 *)
(***************************************************************************)
\* C1: a validation pass leaves in the error map a non-empty message for
\* exactly the fields whose value fails its rule (blank meaning empty after
\* trimming), whatever the map held before: on the sign-up form a passing
\* field has no key, on the login screen it has the empty message.
C1_ValidateFlagsExactlyFailing ==
    [][ValidationPass =>
        IF screen = "form"
        THEN \A k \in FormDataKeys :
                /\ (k \in DOMAIN errors') <=> RuleFails(k, formData, now)
                /\ k \in DOMAIN errors' => Truthy(errors'[k])
        ELSE \A k \in LoginKeys :
                (loginErrors'[k] # "") <=> LoginRuleFails(k, email, password)]_vars

\* a second pass, after the year changed, has flagged several fields at once
\* and left a passing field out
C1_Witness ==
    /\ screen = "form"
    /\ nPresses = 2
    /\ now = NewYearsDay
    /\ Cardinality(DOMAIN errors) >= 3
    /\ \E k \in FormErrorsKeys :
          ~RuleFails(k, formData, now) /\ k \notin DOMAIN errors

\* C2: validateForm returns true exactly when the error map it produces is
\* empty, and it does so whenever every field satisfies its rule.
C2_TrueIffNoErrors ==
    [][ValidationPass =>
        IF screen = "form"
        THEN /\ (nValid' = nValid + 1) <=> (DOMAIN errors' = {})
             /\ ~Invalid => nValid' = nValid + 1 /\ DOMAIN errors' = {}
        ELSE /\ (nValid' = nValid + 1) <=> (\A k \in LoginKeys : loginErrors'[k] = "")
             /\ ~Invalid =>
                   /\ nValid' = nValid + 1
                   /\ \A k \in LoginKeys : loginErrors'[k] = ""]_vars

\* a pass over valid values has returned true with an empty map
C2_Witness ==
    /\ screen = "form"
    /\ nValid = 1
    /\ lastPass.made
    /\ DOMAIN errors = {}
    /\ \A k \in FormDataKeys : ~RuleFails(k, formData, now)

\* C3: a press of submit while the values fail validation starts nothing: the
\* loading flag stays false, nothing is suspended or handed to the callback,
\* and the error map holds a message.
C3_InvalidSubmitStartsNothing ==
    [][ValidationPass /\ Invalid =>
        IF screen = "form"
        THEN /\ ~isLoading /\ ~isLoading'
             /\ pending = <<>> /\ pending' = <<>>
             /\ submitted' = submitted
             /\ nValid' = nValid
             /\ \E k \in FormErrorsKeys : Truthy(ErrorOf(errors', k))
        ELSE /\ ~loginIsLoading /\ ~loginIsLoading'
             /\ loginPending = <<>> /\ loginPending' = <<>>
             /\ loggedIn' = loggedIn
             /\ nValid' = nValid
             /\ \E k \in LoginKeys : loginErrors'[k] # ""]_vars

\* the login button was pressed on invalid values and the screen is idle
C3_Witness ==
    /\ screen = "login"
    /\ nPresses = 1
    /\ nValid = 0
    /\ LoginRuleFails("password", email, password)
    /\ loginErrors.password # ""
    /\ ~loginIsLoading
    /\ loginPending = <<>>

\* the submission state of the mounted screen
Loading == IF screen = "form" THEN isLoading ELSE loginIsLoading

InFlight == IF screen = "form" THEN pending ELSE loginPending

Calls == IF screen = "form" THEN submitted ELSE loggedIn

HasCallback == IF screen = "form" THEN hasOnSubmit ELSE hasOnLogin

FailureNotice ==
    IF screen = "form"
    THEN <<"Erro", "Falha ao enviar formulario. Tente novamente.">>
    ELSE <<"Erro", "Falha no login. Tente novamente.">>

\* C4: every validation that passes gets one submission attempt, which is
\* either still awaited or has run to its end, and each attempt that has run
\* has called the callback, when one is given, exactly once.
C4_OneAttemptPerValidation ==
    /\ nValid = Len(InFlight) + nDone
    /\ HasCallback => Len(Calls) = nDone
    /\ ~HasCallback => Calls = <<>>

\* two submits have passed validation and each has called the callback once
C4_Witness ==
    /\ screen = "form"
    /\ nValid = 2
    /\ Len(submitted) = 2
    /\ pending = <<>>

\* C5: a submit that passes validation sets the loading flag as its await
\* starts, the flag stays true while the submission is awaited, the outcome
\* is reported only while it is true, the flag is false again right after,
\* and every loading screen becomes idle again.
C5_Lifecycle ==
    /\ [](InFlight # <<>> => Loading)
    /\ [][~Loading /\ Loading' => nValid' = nValid + 1 /\ InFlight' # <<>>]_vars
    /\ [][nDone' # nDone =>
            /\ Loading
            /\ InFlight # <<>>
            /\ outcome' \in {"succeeded", "failed"}
            /\ ~Loading']_vars
    /\ (Loading ~> ~Loading)

\* a submission has gone through the whole lifecycle and failed
C5_Witness == nDone = 1 /\ outcome = "failed" /\ ~Loading /\ InFlight = <<>>

\* C6: when the callback throws, the handler reports a failure and shows the
\* failure notice, and the loading flag is false again with nothing awaited,
\* so the button is enabled; the flag is never true with nothing awaited.
C6_FailureReturnsToIdle ==
    /\ [](InFlight = <<>> => ~Loading)
    /\ [][Len(Calls') > Len(Calls) /\ Calls'[Len(Calls')].did = "throws" =>
            /\ outcome' = "failed"
            /\ alert' = FailureNotice
            /\ ~Loading'
            /\ InFlight' = <<>>]_vars

\* after a failed submission the user has submitted again
C6_Witness ==
    /\ Len(Calls) = 1
    /\ Calls[1].did = "throws"
    /\ alert = FailureNotice
    /\ nPresses = 2
    /\ Loading

\* the sign-up form's error map holds a message for key
HasEntry(errs, key) == Truthy(ErrorOf(errs, key))

\* C7, as claimed: a field has an entry in the error map exactly when its
\* value failed its rule at the last validation pass.
C7_EntryIffFailedAtLastPass ==
    screen = "form" =>
        \A k \in FormErrorsKeys :
            HasEntry(errors, k)
                <=> (lastPass.made /\ RuleFails(k, lastPass.formData, lastPass.today))

\* C7, amended: a field has an entry in the error map exactly when its value
\* failed its rule at the last validation pass and the field has not been
\* updated since that pass.
C7_EntryIffFailedAndNotEdited ==
    screen = "form" =>
        \A k \in FormErrorsKeys :
            HasEntry(errors, k)
                <=> /\ lastPass.made
                    /\ RuleFails(k, lastPass.formData, lastPass.today)
                    /\ k \notin editedSince

\* a field that failed the last pass was updated and lost its entry while an
\* untouched failing field kept its own
C7_Witness ==
    /\ screen = "form"
    /\ lastPass.made
    /\ \E k \in editedSince :
          RuleFails(k, lastPass.formData, lastPass.today) /\ ~HasEntry(errors, k)
    /\ \E k \in FormErrorsKeys \ editedSince : HasEntry(errors, k)

\* the step is a call of updateFormData by an input of the sign-up form
UpdateField == screen = "form" /\ nEdits' = nEdits + 1

\* C8: updateFormData(field, value) sets field to value and leaves every
\* other field as it was, and formData always has all ten keys.
C8_UpdateSetsOneField ==
    /\ [](DOMAIN formData = FormDataKeys)
    /\ [][UpdateField =>
            /\ formData'[lastEdit'.field] = lastEdit'.value
            /\ \A k \in FormDataKeys \ {lastEdit'.field} :
                  formData'[k] = formData[k]]_vars

\* the first name of a form constructed with complete data was replaced and
\* the rest of the data is still there
C8_Witness ==
    /\ screen = "form"
    /\ lastEdit = [field |-> "firstName", value |-> <<"a">>]
    /\ formData.firstName = <<"a">>
    /\ [formData EXCEPT !.firstName = ValidInitialData.firstName] = ValidInitialData

\* C9: updateFormData(field, value) leaves field without an error entry,
\* whether or not value passes the rule, and leaves the entries of all other
\* fields as they were.
C9_UpdateClearsOwnErrorOnly ==
    [][UpdateField =>
        /\ ~HasEntry(errors', lastEdit'.field)
        /\ \A k \in FormErrorsKeys \ {lastEdit'.field} :
              ErrorOf(errors', k) = ErrorOf(errors, k)]_vars

\* the first name lost its entry to a value that still fails its rule, and
\* the last name kept its entry
C9_Witness ==
    /\ screen = "form"
    /\ lastEdit.field = "firstName"
    /\ editedSince = {"firstName"}
    /\ RuleFails("firstName", formData, now)
    /\ "firstName" \in DOMAIN errors
    /\ ~HasEntry(errors, "firstName")
    /\ HasEntry(errors, "lastName")

\* C10, as claimed: on the login screen a change of the email or of the
\* password leaves that field without an error message.
C10_LoginChangeClearsError ==
    [][screen = "login" =>
        /\ email' # email => loginErrors'.email = ""
        /\ password' # password => loginErrors'.password = ""]_vars

\* C11: after a validation pass that failed, a flagged field that is not
\* updated keeps its value and its message through every update of other
\* fields; the message of a field goes or changes only in an update of that
\* field or in the next validation pass.
C11_StaleEntryPersists ==
    /\ [](screen = "form" /\ lastPass.made =>
            \A k \in FormErrorsKeys \ editedSince :
                RuleFails(k, lastPass.formData, lastPass.today) =>
                    /\ formData[k] = lastPass.formData[k]
                    /\ ErrorOf(errors, k) = lastPass.newErrors[k])
    /\ [][screen = "form" =>
            \A k \in FormErrorsKeys :
                HasEntry(errors, k) /\ ErrorOf(errors', k) # ErrorOf(errors, k) =>
                    \/ ValidationPass
                    \/ UpdateField /\ lastEdit'.field = k]_vars

\* two other fields were updated after a failed pass and the first name still
\* shows the message of that pass
C11_Witness ==
    /\ screen = "form"
    /\ lastPass.made
    /\ ~lastPass.isValid
    /\ Cardinality(editedSince) = 2
    /\ "firstName" \notin editedSince
    /\ HasEntry(errors, "firstName")
    /\ RuleFails("firstName", formData, now)

\* C12, as claimed: two validation passes over equal values produce the same
\* result and the same error map, whatever the error map before each pass
\* was and whenever each pass is made.
C12_PureInFormValues ==
    lastPass.made /\ lastPass.before.made =>
        /\ lastPass.isValid = lastPass.before.isValid
        /\ lastPass.newErrors = lastPass.before.newErrors

\* C12, amended: two validation passes over equal values made in the same
\* calendar year produce the same result and the same error map, whatever the
\* error map before each pass was and whatever the day of the year.
C12_PureInFormValuesAndYear ==
    lastPass.made /\ lastPass.before.made
        /\ lastPass.today.year = lastPass.before.today.year =>
        /\ lastPass.isValid = lastPass.before.isValid
        /\ lastPass.newErrors = lastPass.before.newErrors

\* a form whose birth date has its thirteenth anniversary on the last day of
\* the year was validated the day before and on that day, over an empty and
\* over a filled error map, and the birth date passed both times
C12_Witness ==
    /\ screen = "form"
    /\ lastPass.made
    /\ lastPass.before.made
    /\ lastPass.before.today = FirstDay
    /\ lastPass.today = NewYearsEve
    /\ formData.birthDate = Date(CurrentYear - MinAge, 12, 31)
    /\ lastPass.newErrors # NoErrors.newErrors
    /\ "birthDate" \notin DOMAIN lastPass.newErrors

\* the values the mounted screen validates
Values ==
    IF screen = "form" THEN formData
    ELSE [email |-> email, password |-> password]

\* the error map the mounted screen shows
Shown == IF screen = "form" THEN errors ELSE loginErrors

\* the step is a validation pass over the values the last pass read, with no
\* field updated in between
SecondPass ==
    /\ ValidationPass
    /\ lastPass.made
    /\ lastPass.formData = Values
    /\ editedSince = {}

\* C13, as claimed: a validation pass that follows another with the values
\* unchanged returns what the first returned and leaves the error map on
\* screen as it was.
C13_SecondPassChangesNothing ==
    [][SecondPass =>
        /\ Shown' = Shown
        /\ lastPass'.newErrors = lastPass.newErrors
        /\ lastPass'.isValid = lastPass.isValid]_vars

\* C13, amended: a validation pass that follows another in the same calendar
\* year with the values unchanged returns what the first returned and leaves
\* the error map on screen as it was.
C13_SecondPassSameYearChangesNothing ==
    [][SecondPass /\ now.year = lastPass.today.year =>
        /\ Shown' = Shown
        /\ lastPass'.newErrors = lastPass.newErrors
        /\ lastPass'.isValid = lastPass.isValid]_vars

\* a form with a birth date twelve years back was validated on two days of
\* the same year, and the second pass left the messages of the first
C13_Witness ==
    /\ screen = "form"
    /\ nPresses = 2
    /\ editedSince = {}
    /\ lastPass.before.made
    /\ lastPass.today.year = lastPass.before.today.year
    /\ errors = lastPass.before.newErrors
    /\ ErrorOf(errors, "birthDate") = "Idade minima e 13 anos"
    /\ ~lastPass.isValid

\* C14: while a submission is awaited the button is disabled, so no press
\* validates or starts a submission before the awaited one has run to its
\* end: at most one submission is awaited at any time.
C14_OneSubmissionInFlight ==
    /\ [](Len(InFlight) <= 1)
    /\ [][Loading =>
            /\ ~ValidationPass
            /\ nValid' = nValid
            /\ Shown' = Shown \/ UpdateField
            /\ Len(InFlight') <= Len(InFlight)]_vars

\* the sign-up form awaits a submission, the user has updated a field
\* meanwhile and has presses left, and that submission is still the only one
C14_Witness ==
    /\ screen = "form"
    /\ SubmitDisabled
    /\ Len(pending) = 1
    /\ nPresses = 1
    /\ nPresses < MaxPresses
    /\ formData # pending[1]
    /\ nValid = 1

\* C15, as claimed: the login password gets a message exactly when it is
\* empty or shorter than 6, and a password of length 1 to 5 gets the
\* minimum-length message.
C15_PasswordFlaggedIffShort ==
    [][ValidationPass /\ screen = "login" =>
        /\ (loginErrors'.password # "") <=> (password = <<>> \/ Len(password) < 6)
        /\ Len(password) \in 1..5 =>
              loginErrors'.password = "Senha deve ter pelo menos 6 caracteres"]_vars

\* C15, amended: the login password gets a message exactly when it is empty
\* after trimming or shorter than 6: the required message when it is empty
\* or all whitespace, whatever its length, and the minimum-length message
\* when it is not blank and of length 1 to 5.
C15_PasswordFlaggedIffBlankOrShort ==
    [][ValidationPass /\ screen = "login" =>
        /\ (loginErrors'.password # "") <=> (Blank(password) \/ Len(password) < 6)
        /\ Blank(password) => loginErrors'.password = "Senha e obrigatoria"
        /\ ~Blank(password) /\ Len(password) \in 1..5 =>
              loginErrors'.password = "Senha deve ter pelo menos 6 caracteres"]_vars

\* a password of six letters went through a validation pass without a message
C15_Witness ==
    /\ screen = "login"
    /\ lastPass.made
    /\ lastPass.formData.password = <<"a", "b", "c", "d", "e", "f">>
    /\ password = lastPass.formData.password
    /\ loginErrors.password = ""
    /\ loginErrors.email # ""

\* C16: the birth date gets a message exactly when the current year minus
\* the birth year is below 13 or above 120, whatever the months and days:
\* the minimum-age message below 13, the invalid-date message above 120,
\* none from 13 to 120.
C16_BirthDateFlaggedByYearDifference ==
    [][ValidationPass /\ screen = "form" =>
        LET age == now.year - formData.birthDate.year
        IN  /\ ("birthDate" \in DOMAIN errors') <=> (age < 13 \/ age > 120)
            /\ age < 13 => errors'.birthDate = "Idade minima e 13 anos"
            /\ age > 120 => errors'.birthDate = "Data de nascimento invalida"]_vars

\* a birth date whose thirteenth anniversary is the day after the pass went
\* through it without a message
C16_Witness ==
    /\ screen = "form"
    /\ lastPass.made
    /\ lastPass.today = FirstDay
    /\ lastPass.formData.birthDate = Date(CurrentYear - 13, 12, 31)
    /\ lastPass.newErrors # NoErrors.newErrors
    /\ errors = lastPass.newErrors
    /\ "birthDate" \notin DOMAIN errors

\* the messages of the two name fields
NameMessages ==
    [firstName |-> [required |-> "Nome e obrigatorio",
                    short |-> "Nome deve ter pelo menos 2 caracteres"],
     lastName |-> [required |-> "Sobrenome e obrigatorio",
                   short |-> "Sobrenome deve ter pelo menos 2 caracteres"]]

\* C17: the first name and the last name each get a message exactly when the
\* name is empty after trimming or has fewer than 2 characters: the required
\* message when it is empty or all whitespace, the minimum-length message
\* when it is a single character that is not whitespace.
C17_NameFlaggedIffBlankOrShort ==
    [][ValidationPass /\ screen = "form" =>
        \A k \in {"firstName", "lastName"} :
            /\ (k \in DOMAIN errors') <=> (Blank(formData[k]) \/ Len(formData[k]) < 2)
            /\ Blank(formData[k]) => errors'[k] = NameMessages[k].required
            /\ ~Blank(formData[k]) /\ Len(formData[k]) < 2 =>
                  errors'[k] = NameMessages[k].short]_vars

\* a pass left a two-character first name that ends in a space without a
\* message and gave a last name of two spaces the required message
C17_Witness ==
    /\ screen = "form"
    /\ lastPass.made
    /\ errors = lastPass.newErrors
    /\ formData = lastPass.formData
    /\ formData.firstName = <<"a", " ">>
    /\ formData.lastName = <<" ", " ">>
    /\ "firstName" \notin DOMAIN errors
    /\ ErrorOf(errors, "lastName") = NameMessages.lastName.required

\* a part of an address: not empty, no whitespace, no '@'
AddressPart(text) ==
    /\ text # <<>>
    /\ \A i \in 1..Len(text) : text[i] \notin (WhiteSpace \cup {"@"})

\* text is local@domain.tld
HasAddressShape(text) ==
    \E i \in 1..Len(text) : \E j \in (i + 1)..Len(text) :
        /\ text[i] = "@"
        /\ text[j] = "."
        /\ AddressPart(SubSeq(text, 1, i - 1))
        /\ AddressPart(SubSeq(text, i + 1, j - 1))
        /\ AddressPart(SubSeq(text, j + 1, Len(text)))

\* C18: on both screens the email gets a message exactly when it is blank or
\* is not local@domain.tld; a malformed email that is not blank gets the
\* invalid-format message, and on the sign-up form, when every other field
\* passes its rule, email is the only key the error map can have.
C18_EmailFlaggedIffBlankOrMalformed ==
    [][ValidationPass =>
        LET e == Values.email
            message == IF screen = "form" THEN ErrorOf(errors', "email")
                       ELSE loginErrors'.email
        IN  /\ Truthy(message) <=> (Blank(e) \/ ~HasAddressShape(e))
            /\ Blank(e) => message = "Email e obrigatorio"
            /\ ~Blank(e) /\ ~HasAddressShape(e) => message = "Email invalido"
            /\ screen = "form"
                  /\ (\A k \in FormErrorsKeys \ {"email"} :
                         ~RuleFails(k, formData, now))
                  => DOMAIN errors' \subseteq {"email"}]_vars

\* a form whose only failing field is the email "not-an-email" was validated
\* and its error map is the invalid-format message of email alone
C18_Witness ==
    /\ screen = "form"
    /\ lastPass.made
    /\ formData = lastPass.formData
    /\ formData.email = NotAnEmail
    /\ errors = [email |-> "Email invalido"]

\* the number of digits in text
DigitCount(text) == Cardinality({i \in 1..Len(text) : text[i] \in Digits})

\* C19: the phone gets a message exactly when it is blank or the number of
\* its digits is neither 10 nor 11, whatever other characters it holds: the
\* required message when blank, the invalid message otherwise.
C19_PhoneFlaggedIffBlankOrDigitCount ==
    [][ValidationPass /\ screen = "form" =>
        LET phone == formData.phone
        IN  /\ ("phone" \in DOMAIN errors')
                  <=> (Blank(phone) \/ DigitCount(phone) \notin {10, 11})
            /\ Blank(phone) => errors'.phone = "Telefone e obrigatorio"
            /\ ~Blank(phone) /\ DigitCount(phone) \notin {10, 11} =>
                  errors'.phone = "Telefone invalido"]_vars

\* a phone of ten digits scattered among letters, dots and spaces went
\* through a pass without a message
C19_Witness ==
    /\ screen = "form"
    /\ lastPass.made
    /\ formData = lastPass.formData
    /\ formData.phone = OddlySeparatedPhone
    /\ errors = lastPass.newErrors
    /\ errors # NoErrors.newErrors
    /\ "phone" \notin DOMAIN errors

\* C20: the bio gets a message, the maximum-length one, exactly when it has
\* more than 500 characters.
C20_BioFlaggedIffLonger ==
    [][ValidationPass /\ screen = "form" =>
        /\ ("bio" \in DOMAIN errors') <=> Len(formData.bio) > 500
        /\ Len(formData.bio) > 500 =>
              errors'.bio = "Bio deve ter no maximo 500 caracteres"]_vars

\* a bio of exactly 500 characters went through a pass that returned true
C20_Witness ==
    /\ screen = "form"
    /\ lastPass.made
    /\ lastPass.isValid
    /\ Len(lastPass.formData.bio) = 500
    /\ formData = lastPass.formData
    /\ errors = NoErrors.newErrors

\* C21: onSubmit is handed the values the validation pass of its submit read
\* and accepted; updates of fields while the submission is awaited change
\* formData and leave the values of the awaited submission as they were.
C21_SubmitsValidatedSnapshot ==
    /\ [][screen = "form" /\ Len(submitted') > Len(submitted) =>
            LET args == submitted'[Len(submitted')].args
            IN  /\ args = lastPass.formData
                /\ lastPass.isValid
                /\ \A k \in FormErrorsKeys : ~RuleFails(k, args, lastPass.today)]_vars
    /\ [][UpdateField /\ pending # <<>> =>
            /\ pending' = pending
            /\ formData' # formData \/ lastEdit'.value = formData[lastEdit'.field]
            /\ pending[1] = lastPass.formData]_vars

\* the first name was replaced by one that fails its rule while the
\* submission was awaited, and onSubmit was handed the name that was validated
C21_Witness ==
    /\ screen = "form"
    /\ Len(submitted) = 1
    /\ nPresses = 1
    /\ submitted[1].args = ValidInitialData
    /\ formData.firstName = <<"a">>
    /\ RuleFails("firstName", formData, now)
    /\ ~isLoading

\* C22: on either screen the loading flag is true exactly while a submission
\* is awaited.
C22_LoadingIffInFlight == Loading <=> InFlight # <<>>

\* a second login is awaited after the first has run to its end
C22_Witness ==
    /\ screen = "login"
    /\ nPresses = 2
    /\ nDone = 1
    /\ loginIsLoading
    /\ Len(loginPending) = 1

\* the birth date is the one the form was constructed with
DefaultBirthDate == birthDateFrom = "construction"

\* C23: a sign-up form constructed without a birth date starts with the date
\* of its construction as birth date; while the birth date is that date no
\* validation passes and nothing is submitted, each press of submit gives
\* birthDate the minimum-age message, and a validation passes only with a
\* birth year 13 to 120 years back.
C23_DefaultBirthDateBlocksSubmit ==
    /\ [](screen = "form" /\ DefaultBirthDate => formData.birthDate = NewYearsEve)
    /\ [](screen = "form" /\ DefaultBirthDate =>
            /\ Age(formData.birthDate, now) \in {0, 1}
            /\ nValid = 0
            /\ ~isLoading
            /\ pending = <<>>
            /\ submitted = <<>>)
    /\ [][screen = "form" /\ ValidationPass /\ DefaultBirthDate =>
            /\ ErrorOf(errors', "birthDate") = "Idade minima e 13 anos"
            /\ alert' = <<"Erro", "Por favor, corrija os erros no formulario.">>
            /\ nValid' = nValid]_vars
    /\ [][screen = "form" /\ nValid' = nValid + 1 =>
            /\ ~DefaultBirthDate
            /\ Age(formData.birthDate, now) \in 13..120]_vars

\* a form filled validly but for the birth date was refused, the user then
\* picked a date thirteen years back and the submission is awaited
C23_Witness ==
    /\ screen = "form"
    /\ nPresses = 2
    /\ nValid = 1
    /\ isLoading
    /\ lastEdit.field = "birthDate"
    /\ Age(formData.birthDate, now) = 13
    /\ [formData EXCEPT !.birthDate = ValidInitialData.birthDate] = ValidInitialData

\* C24: in every step of the dashboard, overlapping refreshes included,
\* totalUsers grows by 0 to 9, totalSales by 0 to 4 and totalRevenue by 0 to
\* 999, growthRate and the activities stay as they are, the refreshing flag
\* is set only by the start of a refresh, and a set flag is reset.
C24_RefreshOnlyAdds ==
    /\ [][/\ dashboardData'.totalUsers - dashboardData.totalUsers \in 0..9
          /\ dashboardData'.totalSales - dashboardData.totalSales \in 0..4
          /\ dashboardData'.totalRevenue - dashboardData.totalRevenue \in 0..999
          /\ dashboardData'.growthRate = dashboardData.growthRate
          /\ activities' = activities
          /\ refreshing' /\ ~refreshing => nRefreshes' = nRefreshes + 1]_vars
    /\ [](/\ dashboardData.totalUsers >= InitialDashboardData.totalUsers
          /\ dashboardData.totalSales >= InitialDashboardData.totalSales
          /\ dashboardData.totalRevenue >= InitialDashboardData.totalRevenue)
    /\ (refreshing ~> ~refreshing)

\* of two refreshes started one after the other, the first has added the
\* largest increments and reset the flag while the second is still awaited
C24_Witness ==
    /\ screen = "dashboard"
    /\ nRefreshes = 2
    /\ Len(refreshPending) = 1
    /\ refreshPending[1] = InitialDashboardData
    /\ ~refreshing
    /\ dashboardData =
          [InitialDashboardData EXCEPT !.totalUsers = @ + 9, !.totalSales = @ + 4,
                                       !.totalRevenue = @ + 999]

IsDigit(c) == c \in Digits

\* the digits of text, in their order
DigitsOf(text) == SelectSeq(text, IsDigit)

\* text is (dd) dddd-dddd or (dd) ddddd-dddd
IsFormatted(text) ==
    /\ Len(text) \in {14, 15}
    /\ text[1] = "("
    /\ text[4] = ")"
    /\ text[5] = " "
    /\ text[Len(text) - 4] = "-"
    /\ \A i \in (1..Len(text)) \ {1, 4, 5, Len(text) - 4} : text[i] \in Digits

\* the step is a keystroke in the phone input
PhoneKeystroke == screen = "form" /\ nEdits' = nEdits + 1 /\ lastEdit'.field = "phone"

\* C25: the phone input stores a text with the digits of the typed text in
\* their order, which formatPhone leaves as it is; a typed text of 10 or 11
\* digits is stored as (dd) dddd-dddd or (dd) ddddd-dddd and passes
\* validatePhone, any other is stored as typed; and a validation pass flags
\* a phone stored by the input only if it has neither 10 nor 11 digits.
C25_FormatPhoneKeepsDigits ==
    /\ [][PhoneKeystroke =>
            LET stored == formData'.phone
            IN  /\ DigitsOf(stored) = DigitsOf(typed')
                /\ formatPhone(stored) = stored
                /\ formatPhone(typed') = stored
                /\ DigitCount(typed') \in {10, 11} =>
                      IsFormatted(stored) /\ validatePhone(stored)
                /\ DigitCount(typed') \notin {10, 11} => stored = typed']_vars
    /\ [][screen = "form" /\ ValidationPass /\ "phone" \in DOMAIN errors' =>
            DigitCount(formData.phone) \notin {10, 11}]_vars

\* a digit typed after a formatted phone of ten digits gave a formatted phone
\* of eleven, which went through a validation pass that returned true
C25_Witness ==
    /\ screen = "form"
    /\ typed = formatPhone(ValidPhone) \o <<"2">>
    /\ formData.phone = formatPhone(ValidPhone \o <<"2">>)
    /\ IsFormatted(formData.phone)
    /\ typed # formData.phone
    /\ lastPass.made
    /\ lastPass.formData = formData
    /\ lastPass.isValid

====
